---- MODULE Spec2Model ----
(***************************************************************************)
(* State machine of src/app/users/[id]/page.tsx: the UserProfilePage       *)
(* component, its six useState cells, the useEffect that starts fetchUser  *)
(* and fetchPosts, the suspension points of the two async functions and    *)
(* the render decision of the component body.                              *)
(***************************************************************************)
EXTENDS Naturals, Sequences, FiniteSets, TLC

\* ---------------------------------------------------------------- bounds
\* how many times the identifier may change within one view instance
MaxNavigations == 1

\* ---------------------------------------------------------------- values
\* identifiers the navigation context can supply; "" is the falsy id
Ids == {"1", "2"}
AllIds == Ids \cup {""}

\* T | null: null is the empty sequence, a value v is <<v>>
None == << >>
Some(v) == << v >>

\* values of type unknown that an await can throw: Error objects (which
\* always carry a message string, possibly empty) and a plain value
ErrorOf(m) == [isError |-> TRUE, message |-> m]
PlainValue == [isError |-> FALSE, message |-> ""]
Thrown == {ErrorOf("Network down"), ErrorOf(""), PlainValue}

\* the JSON bodies of the remote API, by identifier (User and Post[] shapes)
UserOf(i) == [id |-> i, name |-> IF i = "1" THEN "Leanne" ELSE "Ervin",
              hasGeo |-> (i = "1")]
PostsOf(i) == IF i = "1" THEN << [id |-> 1, userId |-> "1"] >>
              ELSE << [id |-> 2, userId |-> "2"], [id |-> 3, userId |-> "2"] >>

\* every Post record the API can return
PostValues == UNION {{PostsOf(i)[n] : n \in DOMAIN PostsOf(i)} : i \in Ids}

\* ---------------------------------------------------------------- state
VARIABLES
    id,             \* line 42: the identifier of the current render
    idValues,       \* the values id has had in this view instance, oldest first
    effectPending,  \* the effect of lines 51-90 is scheduled and has not run
    user,           \* line 44
    posts,          \* line 45
    loadingUser,    \* line 46
    loadingPosts,   \* line 47
    errorUser,      \* line 48
    errorPosts,     \* line 49
    uf,             \* the invocations of fetchUser: identifier and await position
    pf,             \* the invocations of fetchPosts: identifier and await position
    caught,         \* the value the catch block that ran last was entered with
    view            \* what the last render returned

vars == <<id, idValues, effectPending, user, posts, loadingUser, loadingPosts,
          errorUser, errorPosts, uf, pf, caught, view>>

\* ---------------------------------------------------------------- render
\* JavaScript truthiness of a string | null
Truthy(e) == e # None /\ e[1] # ""

\* the Posts <section> of the composed view
PostsSection(lp, ep, p) ==
    IF lp THEN [kind |-> "spinner", text |-> "Loading posts...", cards |-> << >>]
    ELSE IF Truthy(ep) THEN [kind |-> "error", text |-> ep[1], cards |-> << >>]
    ELSE [kind |-> "grid", text |-> "", cards |-> [k \in DOMAIN p |-> p[k].id]]

NoSection == [kind |-> "none", text |-> "", cards |-> << >>]

\* the map column: user?.address.geo.lat && user?.address.geo.lng
MapRegion(u) == IF u # None /\ u[1].hasGeo THEN "UserMap" ELSE "Map data not available"

Render_BlockOnPosts(u, p, lu, lp, eu, ep) ==
    IF lu \/ lp THEN [page |-> "spinner", text |-> "Loading user...", profile |-> None,
                map |-> "none", postsSection |-> NoSection]
    ELSE IF Truthy(eu) THEN [page |-> "error", text |-> eu[1], profile |-> None,
                map |-> "none", postsSection |-> NoSection]
    ELSE [page |-> "composed", text |-> "", profile |-> u,
          map |-> MapRegion(u), postsSection |-> PostsSection(lp, ep, p)]

\* what the component body returns for the current state
Render(u, p, lu, lp, eu, ep) ==
    IF lu THEN [page |-> "spinner", text |-> "Loading user...", profile |-> None,
                map |-> "none", postsSection |-> NoSection]
    ELSE IF Truthy(eu) THEN [page |-> "error", text |-> eu[1], profile |-> None,
                map |-> "none", postsSection |-> NoSection]
    ELSE [page |-> "composed", text |-> "", profile |-> u,
          map |-> MapRegion(u), postsSection |-> PostsSection(lp, ep, p)]

\* ---------------------------------------------------------------- init
\* the value bound to err in the catch block that ran last, and whose it was
Caught(fn, err) == [fn |-> fn, err |-> err]

Init ==
    /\ id \in AllIds
    /\ idValues = << id >>
    /\ effectPending = TRUE
    /\ user = None
    /\ posts = << >>
    /\ loadingUser = TRUE
    /\ loadingPosts = TRUE
    /\ errorUser = None
    /\ errorPosts = None
    /\ uf = << >>
    /\ pf = << >>
    /\ caught = Caught("none", PlainValue)
    /\ view = Render(None, << >>, TRUE, TRUE, None, None)

\* ---------------------------------------------------------------- effect
\* one invocation of an async function: its identifier and where it stands
Call(i) == [id |-> i, pc |-> "fetch"]

StartFetches_ResetFlags ==
    /\ uf' = Append(uf, Call(id))
    /\ pf' = Append(pf, Call(id))
    /\ loadingUser' = TRUE
    /\ loadingPosts' = TRUE
    /\ UNCHANGED <<user, posts, errorUser, errorPosts>>
    /\ view' = Render(user, posts, TRUE, TRUE, errorUser, errorPosts)

StartFetches_Retry ==
    /\ uf' = uf \o << Call(id), Call(id) >>
    /\ pf' = Append(pf, Call(id))
    /\ UNCHANGED <<user, posts, loadingUser, loadingPosts, errorUser, errorPosts, view>>

\* fetchUser(); fetchPosts(); each runs up to its first await
StartFetches ==
    /\ uf' = Append(uf, Call(id))
    /\ pf' = Append(pf, Call(id))
    /\ UNCHANGED <<user, posts, loadingUser, loadingPosts, errorUser, errorPosts, view>>

\* the effect callback, run after mount and after each change of id
useEffect ==
    /\ effectPending
    /\ effectPending' = FALSE
    /\ UNCHANGED <<caught, id, idValues>>
    /\ IF id = ""
         THEN UNCHANGED <<uf, pf, user, posts, loadingUser, loadingPosts,
                          errorUser, errorPosts, view>>
         ELSE StartFetches

\* the navigation context resolves to another identifier for the same instance
ChangeId(newId) ==
    /\ ~effectPending
    /\ newId # id
    /\ Len(idValues) <= MaxNavigations
    /\ id' = newId
    /\ idValues' = Append(idValues, newId)
    /\ effectPending' = TRUE
    /\ UNCHANGED <<caught, user, posts, loadingUser, loadingPosts, errorUser, errorPosts,
                   uf, pf, view>>

\* ---------------------------------------------------------------- fetchUser
\* the catch block: err instanceof Error ? err.message : fallback
CatchMessage(err) ==
    IF err.isError THEN err.message ELSE "An unknown error occurred"

\* the invocation k of f moves on to pc
Settle(f, k, pc) == [f EXCEPT ![k].pc = pc]


UserFail_NoFinally(k, err) ==
    /\ errorUser' = Some(CatchMessage(err))
    /\ UNCHANGED loadingUser
    /\ uf' = Settle(uf, k, "failed")
    /\ caught' = Caught("user", err)
    /\ UNCHANGED <<id, idValues, effectPending, user, posts, loadingPosts, errorPosts, pf>>
    /\ view' = Render(user, posts, loadingUser', loadingPosts, errorUser', errorPosts)

UserFail_Shared(k, err) ==
    /\ errorUser' = Some(CatchMessage(err))
    /\ errorPosts' = Some(CatchMessage(err))
    /\ loadingUser' = FALSE
    /\ uf' = Settle(uf, k, "failed")
    /\ caught' = Caught("user", err)
    /\ UNCHANGED <<id, idValues, effectPending, user, posts, loadingPosts, pf>>
    /\ view' = Render(user, posts, loadingUser', loadingPosts, errorUser', errorPosts')

\* catch (err) { setErrorUser(...) } finally { setLoadingUser(false) }
UserFail(k, err) ==
    /\ errorUser' = Some(CatchMessage(err))
    /\ loadingUser' = FALSE
    /\ uf' = Settle(uf, k, "failed")
    /\ caught' = Caught("user", err)
    /\ UNCHANGED <<id, idValues, effectPending, user, posts, loadingPosts, errorPosts, pf>>
    /\ view' = Render(user, posts, loadingUser', loadingPosts, errorUser', errorPosts)

\* await fetch(...) resolves with res.ok: fetchUser goes on to await res.json()
UserResponseOk(k) ==
    /\ uf[k].pc = "fetch"
    /\ uf' = Settle(uf, k, "json")
    /\ UNCHANGED <<caught, id, idValues, effectPending, user, posts, loadingUser, loadingPosts,
                   errorUser, errorPosts, pf, view>>

\* await fetch(...) resolves with !res.ok: throw new Error("Failed to fetch user")
UserResponseNotOk(k) ==
    /\ uf[k].pc = "fetch"
    /\ UserFail(k, ErrorOf("Failed to fetch user"))

\* await fetch(...) rejects
UserFetchThrows(k, t) ==
    /\ uf[k].pc = "fetch"
    /\ UserFail(k, t)

UserJsonOk_IgnoreStale(k) ==
    /\ uf[k].pc = "json"
    /\ user' = IF uf[k].id = id THEN Some(UserOf(uf[k].id)) ELSE user
    /\ loadingUser' = FALSE
    /\ uf' = Settle(uf, k, "ok")
    /\ UNCHANGED <<caught, id, idValues, effectPending, posts, loadingPosts, errorUser, errorPosts, pf>>
    /\ view' = Render(user', posts, loadingUser', loadingPosts, errorUser, errorPosts)

UserJsonOk_NoSetUser(k) ==
    /\ uf[k].pc = "json"
    /\ loadingUser' = FALSE
    /\ uf' = Settle(uf, k, "ok")
    /\ UNCHANGED <<caught, id, idValues, effectPending, user, posts, loadingPosts, errorUser, errorPosts, pf>>
    /\ view' = Render(user, posts, loadingUser', loadingPosts, errorUser, errorPosts)

\* await res.json() resolves: setUser(data); finally setLoadingUser(false)
UserJsonOk(k) ==
    /\ uf[k].pc = "json"
    /\ user' = Some(UserOf(uf[k].id))
    /\ loadingUser' = FALSE
    /\ uf' = Settle(uf, k, "ok")
    /\ UNCHANGED <<caught, id, idValues, effectPending, posts, loadingPosts, errorUser, errorPosts, pf>>
    /\ view' = Render(user', posts, loadingUser', loadingPosts, errorUser, errorPosts)

\* await res.json() rejects
UserJsonThrows(k, t) ==
    /\ uf[k].pc = "json"
    /\ UserFail(k, t)

\* ---------------------------------------------------------------- fetchPosts
\* catch (err) { setErrorPosts(...) } finally { setLoadingPosts(false) }
PostsFail(k, err) ==
    /\ errorPosts' = Some(CatchMessage(err))
    /\ loadingPosts' = FALSE
    /\ pf' = Settle(pf, k, "failed")
    /\ caught' = Caught("posts", err)
    /\ UNCHANGED <<id, idValues, effectPending, user, posts, loadingUser, errorUser, uf>>
    /\ view' = Render(user, posts, loadingUser, loadingPosts', errorUser, errorPosts')

\* await fetch(...) resolves with res.ok: fetchPosts goes on to await res.json()
PostsResponseOk(k) ==
    /\ pf[k].pc = "fetch"
    /\ pf' = Settle(pf, k, "json")
    /\ UNCHANGED <<caught, id, idValues, effectPending, user, posts, loadingUser, loadingPosts,
                   errorUser, errorPosts, uf, view>>

\* await fetch(...) resolves with !res.ok: throw new Error("Failed to fetch posts")
PostsResponseNotOk(k) ==
    /\ pf[k].pc = "fetch"
    /\ PostsFail(k, ErrorOf("Failed to fetch posts"))

\* await fetch(...) rejects
PostsFetchThrows(k, t) ==
    /\ pf[k].pc = "fetch"
    /\ PostsFail(k, t)

\* await res.json() resolves: setPosts(data); finally setLoadingPosts(false)
PostsJsonOk(k) ==
    /\ pf[k].pc = "json"
    /\ posts' = PostsOf(pf[k].id)
    /\ loadingPosts' = FALSE
    /\ pf' = Settle(pf, k, "ok")
    /\ UNCHANGED <<caught, id, idValues, effectPending, user, loadingUser, errorUser, errorPosts, uf>>
    /\ view' = Render(user, posts', loadingUser, loadingPosts', errorUser, errorPosts)

\* await res.json() rejects
PostsJsonThrows(k, t) ==
    /\ pf[k].pc = "json"
    /\ PostsFail(k, t)

\* ---------------------------------------------------------------- system
\* some continuation of fetchUser runs
UserSettle ==
    \E k \in DOMAIN uf :
        \/ UserResponseOk(k)
        \/ UserResponseNotOk(k)
        \/ UserJsonOk(k)
        \/ \E t \in Thrown : UserFetchThrows(k, t)
        \/ \E t \in Thrown : UserJsonThrows(k, t)

\* some continuation of fetchPosts runs
PostsSettle ==
    \E k \in DOMAIN pf :
        \/ PostsResponseOk(k)
        \/ PostsResponseNotOk(k)
        \/ PostsJsonOk(k)
        \/ \E t \in Thrown : PostsFetchThrows(k, t)
        \/ \E t \in Thrown : PostsJsonThrows(k, t)

Next ==
    \/ useEffect
    \/ \E newId \in AllIds : ChangeId(newId)
    \/ \E k \in DOMAIN uf : UserResponseOk(k)
    \/ \E k \in DOMAIN uf : UserResponseNotOk(k)
    \/ \E k \in DOMAIN uf : UserJsonOk(k)
    \/ \E k \in DOMAIN uf, t \in Thrown : UserFetchThrows(k, t)
    \/ \E k \in DOMAIN uf, t \in Thrown : UserJsonThrows(k, t)
    \/ \E k \in DOMAIN pf : PostsResponseOk(k)
    \/ \E k \in DOMAIN pf : PostsResponseNotOk(k)
    \/ \E k \in DOMAIN pf : PostsJsonOk(k)
    \/ \E k \in DOMAIN pf, t \in Thrown : PostsFetchThrows(k, t)
    \/ \E k \in DOMAIN pf, t \in Thrown : PostsJsonThrows(k, t)

Spec == Init /\ [][Next]_vars

\* the shape of the state
TypeOK ==
    /\ id \in AllIds
    /\ idValues \in Seq(AllIds) /\ idValues[Len(idValues)] = id
    /\ effectPending \in BOOLEAN
    /\ user \in {None} \cup {Some(UserOf(i)) : i \in Ids}
    /\ posts \in {<< >>} \cup {PostsOf(i) : i \in Ids}
    /\ loadingUser \in BOOLEAN /\ loadingPosts \in BOOLEAN
    /\ errorUser \in {None} \cup {Some(CatchMessage(t)) : t \in Thrown \cup {ErrorOf("Failed to fetch user")}}
    /\ errorPosts \in {None} \cup {Some(CatchMessage(t)) : t \in Thrown \cup {ErrorOf("Failed to fetch posts")}}
    /\ \A k \in DOMAIN uf : uf[k].id \in Ids /\ uf[k].pc \in {"fetch", "json", "ok", "failed"}
    /\ \A k \in DOMAIN pf : pf[k].id \in Ids /\ pf[k].pc \in {"fetch", "json", "ok", "failed"}
    /\ caught.fn \in {"none", "user", "posts"}
    /\ view = Render(user, posts, loadingUser, loadingPosts, errorUser, errorPosts)

\* every network call settles and the event loop runs every due continuation
FairSpec == Spec /\ WF_vars(useEffect) /\ WF_vars(UserSettle) /\ WF_vars(PostsSettle)

\* ---------------------------------------------------------------- properties
Done(f, k) == f[k].pc \in {"ok", "failed"}
Requested(f) == [k \in DOMAIN f |-> f[k].id]
ExactlyOne(a, b, c) == (a /\ ~b /\ ~c) \/ (~a /\ b /\ ~c) \/ (~a /\ ~b /\ c)

\* C1: for each resource exactly one phase holds in every reachable state:
\* pending (loading flag true), success-with-payload (flag false, payload
\* set, no error message) or failed-with-message (flag false, error set).
C1_ExactlyOnePhase ==
    /\ ExactlyOne(loadingUser,
                  ~loadingUser /\ user # None /\ errorUser = None,
                  ~loadingUser /\ errorUser # None)
    /\ ExactlyOne(loadingPosts,
                  ~loadingPosts /\ posts \in Seq(PostValues) /\ errorPosts = None,
                  ~loadingPosts /\ errorPosts # None)

C1_Witness ==
    /\ Len(idValues) = 2
    /\ ~loadingUser /\ user # None /\ errorUser = None
    /\ ~loadingPosts /\ errorPosts # None

\* C2: each effect run with a non-empty identifier issues exactly one request
\* to the user endpoint and one to the posts endpoint for that value; state
\* updates, re-renders and failures issue none.
EffectRuns == IF effectPending THEN SubSeq(idValues, 1, Len(idValues) - 1) ELSE idValues
IsNonEmptyId(i) == i # ""
C3_PendingFlagCleared ==
    /\ [](\A k \in DOMAIN uf : Done(uf, k) => ~loadingUser)
    /\ [](\A k \in DOMAIN pf : Done(pf, k) => ~loadingPosts)
    /\ (Len(uf) > 0) ~> ~loadingUser
    /\ (Len(pf) > 0) ~> ~loadingPosts

C3_Witness ==
    /\ Len(uf) = 1 /\ uf[1].pc = "failed" /\ ~loadingUser
    /\ caught = [fn |-> "user", err |-> PlainValue]
    /\ Len(pf) = 1 /\ pf[1].pc = "json" /\ loadingPosts

\* C4: a step of the user fetch leaves posts, loadingPosts and errorPosts
\* unchanged and a step of the posts fetch leaves user, loadingUser and
\* errorUser unchanged.
UserStep == Len(uf') = Len(uf) /\ uf' # uf
PostsStep == Len(pf') = Len(pf) /\ pf' # pf
C4_NoSharedState ==
    [][ /\ UserStep => UNCHANGED <<posts, loadingPosts, errorPosts, pf>>
        /\ PostsStep => UNCHANGED <<user, loadingUser, errorUser, uf>> ]_vars

C4_Witness ==
    /\ Len(uf) = 1 /\ uf[1].pc = "failed" /\ errorUser # None
    /\ Len(pf) = 1 /\ pf[1].pc = "ok" /\ errorPosts = None /\ posts = PostsOf(pf[1].id)

\* C5: once a user fetch has settled as failed the rendered output is only
\* the error message: no profile card, no map region, no posts section.
C5_UserFailureShowsOnlyError ==
    (\E k \in DOMAIN uf : uf[k].pc = "failed") =>
        /\ view.page = "error"
        /\ view.text # ""
        /\ view.profile = None
        /\ view.map = "none"
        /\ view.postsSection = NoSection

\* C6: the message recorded by a failure is the failure's own message when it
\* carries one ("Failed to fetch user" for a non-success status) and "An
\* unknown error occurred" when it carries none; the resource ends in the
\* failed phase with a non-empty message.
CarriesMessage(err) == err.isError /\ err.message # ""
MessageFor(err) == IF CarriesMessage(err) THEN err.message ELSE "An unknown error occurred"
C6_RecordedMessage ==
    /\ caught.fn = "user" =>
         ~loadingUser /\ errorUser = Some(MessageFor(caught.err)) /\ errorUser[1] # ""
    /\ caught.fn = "posts" =>
         ~loadingPosts /\ errorPosts = Some(MessageFor(caught.err)) /\ errorPosts[1] # ""

\* C7 (as stated): in every reachable state the profile/map region follows
\* the user phase alone and the posts section follows the posts phase alone.
C7_SectionsNeverBlock ==
    /\ view.postsSection = PostsSection(loadingPosts, errorPosts, posts)
    /\ ~loadingUser /\ user # None /\ ~Truthy(errorUser) =>
         view.page = "composed" /\ view.profile = user

\* C7 (amended): the page kind follows loadingUser and errorUser alone; the
\* posts section exists only inside the composed view, where it follows
\* loadingPosts, errorPosts and posts alone; with the user shown and the
\* posts pending the profile and map render next to "Loading posts...".
C7_PostsSectionInsideComposedView ==
    /\ view.page = IF loadingUser THEN "spinner"
                   ELSE IF Truthy(errorUser) THEN "error" ELSE "composed"
    /\ view.page # "composed" => view.postsSection = NoSection
    /\ view.page = "composed" =>
         /\ view.profile = user
         /\ view.postsSection.kind = IF loadingPosts THEN "spinner"
                                     ELSE IF Truthy(errorPosts) THEN "error" ELSE "grid"
         /\ view.postsSection.kind = "error" => view.postsSection.text = errorPosts[1]
         /\ view.postsSection.kind = "grid" =>
              view.postsSection.cards = [k \in DOMAIN posts |-> posts[k].id]
    /\ ~loadingUser /\ user # None /\ ~Truthy(errorUser) /\ loadingPosts =>
         /\ view.page = "composed"
         /\ view.profile = user
         /\ view.map \in {"UserMap", "Map data not available"}
         /\ view.postsSection.kind = "spinner"
         /\ view.postsSection.text = "Loading posts..."

C7_Witness ==
    /\ ~loadingUser /\ user = Some(UserOf("1")) /\ errorUser = None
    /\ loadingPosts
    /\ view.page = "composed" /\ view.map = "UserMap"
    /\ view.postsSection.kind = "spinner"

\* C8: there is no cancellation: a response is applied when it arrives,
\* whatever the identifier is by then.
C8_NoCancellation ==
    [][ /\ \A k \in DOMAIN uf :
             uf[k].pc = "json" /\ uf'[k].pc = "ok" => user' = Some(UserOf(uf[k].id))
        /\ \A k \in DOMAIN pf :
             pf[k].pc = "json" /\ pf'[k].pc = "ok" => posts' = PostsOf(pf[k].id) ]_vars

C8_Witness ==
    /\ idValues = << "1", "2" >> /\ id = "2"
    /\ Len(uf) = 2 /\ uf[2].id = "2" /\ uf[2].pc = "ok"
    /\ Len(pf) = 2 /\ pf[2].id = "2" /\ pf[2].pc = "ok"
    /\ user = Some(UserOf("1"))
    /\ posts = PostsOf("1")

\* C9: whenever the composed view is rendered the stored user is non-null.
C9_ComposedViewHasUser ==
    view.page = "composed" => user # None

\* C10: a pending flag that has become false never becomes true again, an
\* error message once recorded never returns to null, and a displayed user
\* error stays displayed when a later user fetch succeeds.
C10_FlagsAndErrorsMonotone ==
    [][ /\ ~loadingUser => ~loadingUser'
        /\ ~loadingPosts => ~loadingPosts'
        /\ errorUser # None => errorUser' # None
        /\ errorPosts # None => errorPosts' # None
        /\ \A k \in DOMAIN uf :
             uf[k].pc = "json" /\ uf'[k].pc = "ok" /\ Truthy(errorUser) =>
                 errorUser' = errorUser /\ view'.page = "error" /\ view'.text = errorUser[1]
        /\ \A k \in DOMAIN pf :
             pf[k].pc = "json" /\ pf'[k].pc = "ok" => errorPosts' = errorPosts ]_vars

C10_Witness ==
    /\ Len(uf) = 2 /\ uf[1].pc = "failed" /\ uf[2].pc = "ok"
    /\ user = Some(UserOf(uf[2].id))
    /\ ~loadingUser
    /\ view.page = "error" /\ view.text = errorUser[1]

====
